---- MODULE Spec2Model ----
(***************************************************************************)
(* A model of dss, a growable, binary-safe, reference-counted byte string  *)
(* (src/dss.c, src/dss.h).                                                 *)
(*                                                                         *)
(* The heap maps an address to the allocation that starts there.  A dss    *)
(* handle is the address of its allocation: the fixed offset between the   *)
(* header and the buffer (DSS_HDR) is abstracted, NULL is 0.  A block      *)
(* holds the three header fields and buf, the bytes after the header;      *)
(* buf has exactly size - sizeof(dss_hdr) cells as long as the size field  *)
(* is true to the allocation.  A cell the program never wrote holds Undef. *)
(* The allocator is the environment: malloc and realloc may fail, and a    *)
(* successful realloc may keep the address or move the block.              *)
(***************************************************************************)
EXTENDS Integers, Sequences, FiniteSets, TLC

\* sizeof(dss_hdr): packed uint64 size, uint64 len, uint32 ref_count
HDR == 20
DSS_NULLT == 1

\* Bounds of the model
MaxAddr == 2
MaxByte == 1
MaxData == 1
MaxGrow == 3
MaxRef == 2
MaxIdx == 1
MaxCalls == 5
MaxChunk == 2
MaxSeqCalls == 3
MaxStr == 5
MaxTrims == 1
MaxAppends == 8
MaxOwnCalls == 5
MaxFmtCalls == 4

NULL == 0
BAD == -1
Undef == -1
Addr == 1..MaxAddr
Byte == 0..MaxByte
NoBlock == [size |-> 0, len |-> 0, ref_count |-> 0, buf |-> <<>>]

\* every byte sequence of length at most n
RECURSIVE SeqsUpTo(_)
SeqsUpTo(n) ==
  IF n = 0 THEN {<<>>}
  ELSE LET S == SeqsUpTo(n - 1)
       IN S \cup {Append(s, c) : s \in {x \in S : Len(x) = n - 1}, c \in Byte}

Data == SeqsUpTo(MaxData)

\* heap, last and fault are the program and its last call, ncalls the number
\* of calls the client has made; arg, pre and prev are a record of the calls
\* kept only by the specifications that need one, nrealloc the number of
\* calls of realloc and refs the references the owners hold to each address
VARIABLES heap, last, fault, ncalls, arg, pre, prev, nrealloc, refs

vars == <<heap, last, fault, ncalls, arg, pre, prev, nrealloc, refs>>

Live(hp, p) == p \in Addr /\ hp[p] # NoBlock
FreeAddr(hp) == {q \in Addr : hp[q] = NoBlock}

\* the bytes a reader sees: buf[0 .. len - 2], the terminator left out
Payload(b) == SubSeq(b.buf, 1, b.len - DSS_NULLT)

dss_len(hp, s) == hp[s].len

\* buf[off] = v, offsets counted from 0; a store outside the cells of the
\* allocation changes none of them
Store(buf, off, v) ==
  IF off + 1 \in 1..Len(buf) THEN [buf EXCEPT ![off + 1] = v] ELSE buf

\* memcpy(buf + off, t, Len(t))
RECURSIVE StoreSeq(_, _, _)
StoreSeq(buf, off, t) ==
  IF t = <<>> THEN buf
  ELSE StoreSeq(Store(buf, off, Head(t)), off + 1, Tail(t))

\* n cells holding v
RECURSIVE Fill(_, _)
Fill(n, v) == IF n <= 0 THEN <<>> ELSE Append(Fill(n - 1, v), v)

\* the source of memset(.., 0, n)
Zeros(n) == Fill(n, 0)

\* dss_newb that leaves the terminator out of hdr->len
NewBlock_nonullt(t) ==
  LET len == Len(t)
      raw == Fill(len + DSS_NULLT, Undef)
  IN [size |-> HDR + len + DSS_NULLT,
      len |-> len,
      ref_count |-> 1,
      buf |-> Store(StoreSeq(raw, 0, t), len, 0)]

\* The block malloc(HDR + len + 1) becomes in dss_newb
NewBlock(t) ==
  LET len == Len(t)
      raw == Fill(len + DSS_NULLT, Undef)
  IN [size |-> HDR + len + DSS_NULLT,
      len |-> len + DSS_NULLT,
      ref_count |-> 1,
      buf |-> Store(StoreSeq(raw, 0, t), len, 0)]

\* realloc(p, n) that succeeds at address q (q = p: in place): the bytes up to
\* the smaller of the two sizes are kept, the rest is indeterminate.  The size
\* field is a header byte like any other: realloc does not touch it.
Resize(b, n) ==
  [b EXCEPT !.buf = IF n - HDR <= Len(b.buf)
                    THEN SubSeq(b.buf, 1, n - HDR)
                    ELSE b.buf \o Fill(n - HDR - Len(b.buf), Undef)]

Realloc(hp, p, n, q) ==
  IF q = p THEN [hp EXCEPT ![p] = Resize(hp[p], n)]
  ELSE [hp EXCEPT ![p] = NoBlock, ![q] = Resize(hp[p], n)]

\* dss_expand
\* dss_expand that counts the terminator a second time
Needed_nullt(b, len) == b.len + len + DSS_NULLT
Needed(b, len) == b.len + len
Total(b) == b.size - HDR
\* dss_expand that lets one byte more through than the allocation holds
MustRealloc_short(b, len) == Needed(b, len) > Total(b) + 1
MustRealloc(b, len) == Needed(b, len) > Total(b)
\* dss_expand that asks for what is needed and no more
NewCap_exact(b, len) == Needed(b, len)

NewCap(b, len) ==
  IF Total(b) * 2 < Needed(b, len) THEN Needed(b, len) * 2 ELSE Total(b) * 2

\* dss_expand that always asks for twice what is needed
dss_expand_needed(hp, p, len, q) ==
  IF ~MustRealloc(hp[p], len) THEN [heap |-> hp, hdr |-> p]
  ELSE IF q = NULL THEN [heap |-> hp, hdr |-> NULL]
  ELSE LET n == HDR + Needed(hp[p], len) * 2
           h1 == Realloc(hp, p, n, q)
       IN [heap |-> [h1 EXCEPT ![q].size = n], hdr |-> q]
\* q is the allocator's answer: NULL (failure), p, or a free address.
\* The result is the heap and the header pointer dss_expand returns.
dss_expand(hp, p, len, q) ==
  IF ~MustRealloc(hp[p], len) THEN [heap |-> hp, hdr |-> p]
  ELSE IF q = NULL THEN [heap |-> hp, hdr |-> NULL]
  ELSE LET n == HDR + NewCap(hp[p], len)
           h1 == Realloc(hp, p, n, q)
       IN [heap |-> [h1 EXCEPT ![q].size = n], hdr |-> q]

\* dss_append_bytes that does not write the terminator back
dss_append_bytes_noterm(b, t) ==
  [b EXCEPT !.len = b.len + Len(t),
            !.buf = StoreSeq(b.buf, b.len - DSS_NULLT, t)]

\* dss_append_bytes that copies after the old terminator instead of over it
dss_append_bytes_afterterm(b, t) ==
  LET nl == b.len + Len(t)
  IN [b EXCEPT !.len = nl, !.buf = Store(StoreSeq(b.buf, b.len, t), nl - 1, 0)]

\* dss_append_bytes
dss_append_bytes(b, t) ==
  LET len == Len(t)
      b1 == StoreSeq(b.buf, b.len - DSS_NULLT, t)
      nl == b.len + len
  IN [b EXCEPT !.len = nl, !.buf = Store(b1, nl - 1, 0)]

\* dss_grow without its memset
GrowBlock_nofill(b, len) ==
  [b EXCEPT !.len = len, !.buf = Store(b.buf, len, 0)]

\* memset(hdr->buf + hdr->len, 0, len); hdr->len = len; hdr->buf[hdr->len] = 0
GrowBlock(b, len) ==
  LET b1 == StoreSeq(b.buf, b.len, Zeros(len))
  IN [b EXCEPT !.len = len, !.buf = Store(b1, len, 0)]

\* dss_trim that takes a negative start for 0 instead of counting it from
\* the end
TrimStart_fromzero(slen, start) ==
  LET s2 == IF start < 0 THEN 0 ELSE start
  IN IF s2 > slen THEN slen ELSE s2

\* dss_trim up to its realloc: the indices as resolved, and the block
TrimStart(slen, start) ==
  LET s1 == IF start < 0 THEN slen + start ELSE start
      s2 == IF s1 < 0 THEN 0 ELSE s1
  IN IF s2 > slen THEN slen ELSE s2

TrimEnd(slen, start, end) ==
  LET e1 == IF end < 0 THEN slen + end ELSE end
      e2 == IF e1 >= slen THEN slen - 1 ELSE e1
  IN IF e2 < TrimStart(slen, start) THEN TrimStart(slen, start) - 1 ELSE e2

TrimNewLen(b, start, end) ==
  LET slen == b.len - DSS_NULLT
  IN TrimEnd(slen, start, end) - TrimStart(slen, start) + DSS_NULLT

\* memmove(hdr->buf, hdr->buf + start, new_len)
MoveDown(buf, from, n) ==
  SubSeq(buf, from + 1, from + n) \o SubSeq(buf, n + 1, Len(buf))

TrimBlock(b, start, end) ==
  LET slen == b.len - DSS_NULLT
      st == TrimStart(slen, start)
      new_len == TrimNewLen(b, start, end)
      b1 == MoveDown(b.buf, st, new_len)
  IN [b EXCEPT !.len = new_len + DSS_NULLT, !.buf = Store(b1, new_len, 0)]

\* What the last call was: the function, its handle argument, what it returned
\* and what the allocator answered (ma: malloc, ra: realloc)
Call(op, s, ret, ma, ra) ==
  [op |-> op, s |-> s, ret |-> ret, ma |-> ma, ra |-> ra]

NoCall == Call("init", NULL, NULL, "none", "none")
NoArg == [t |-> <<>>, n |-> 0, m |-> 0]

\* the answers realloc(p, ..) can give: NULL, the same address, a free one
ReallocAnswers(hp, p) == {NULL, p} \cup FreeAddr(hp)
MallocAnswers(hp) == {NULL} \cup FreeAddr(hp)
Ra(p, q) == IF q = NULL THEN "fail" ELSE IF q = p THEN "same" ELSE "moved"
Ma(q) == IF q = NULL THEN "fail" ELSE "ok"

\* A read or write through a header pointer that is NULL (or NULL minus the
\* header size) is undefined: the process is killed by the access, or the
\* access goes through outside every allocation and the call hands back a
\* pointer that is no allocation's handle.
Undefined(hp, c) ==
  /\ heap' = hp
  /\ fault' \in {"segv", "none"}
  /\ last' = [c EXCEPT !.ret = BAD]

Init ==
  /\ heap = [p \in Addr |-> NoBlock]
  /\ last = NoCall
  /\ fault = "none"
  /\ ncalls = 0
  /\ arg = NoArg
  /\ pre = NoBlock
  /\ prev = [call |-> NoCall, arg |-> NoArg, pre |-> NoBlock]
  /\ nrealloc = 0
  /\ refs = [p \in Addr |-> 0]

dss_newb(t) ==
  /\ fault = "none"
  /\ \E q \in MallocAnswers(heap) :
       /\ heap' = IF q = NULL THEN heap ELSE [heap EXCEPT ![q] = NewBlock(t)]
       /\ last' = Call("newb", NULL, q, Ma(q), "none")
  /\ UNCHANGED fault

dss_empty ==
  /\ fault = "none"
  /\ \E q \in MallocAnswers(heap) :
       /\ heap' = IF q = NULL THEN heap ELSE [heap EXCEPT ![q] = NewBlock(<<>>)]
       /\ last' = Call("empty", NULL, q, Ma(q), "none")
  /\ UNCHANGED fault

\* the body of dss_concatb, for the call c
ConcatB(s, t, c) ==
  IF Len(t) = 0
  THEN heap' = heap /\ last' = [c EXCEPT !.ret = s] /\ UNCHANGED fault
  ELSE \E q \in (IF MustRealloc(heap[s], Len(t))
                 THEN ReallocAnswers(heap, s) ELSE {s}) :
         LET e == dss_expand(heap, s, Len(t), q)
             c1 == IF MustRealloc(heap[s], Len(t))
                   THEN [c EXCEPT !.ra = Ra(s, q)] ELSE c
         IN IF e.hdr = NULL
            THEN Undefined(heap, c1)
            ELSE /\ heap' = [e.heap EXCEPT
                               ![e.hdr] = dss_append_bytes(e.heap[e.hdr], t)]
                 /\ last' = [c1 EXCEPT !.ret = e.hdr]
                 /\ UNCHANGED fault

dss_concatb(s, t) ==
  /\ fault = "none"
  /\ Live(heap, s)
  /\ ConcatB(s, t, Call("concatb", s, NULL, "none", "none"))

\* dss_dup that hands back the same allocation with one more reference
dss_dup_shallow(s) ==
  /\ fault = "none"
  /\ Live(heap, s)
  /\ heap' = [heap EXCEPT ![s].ref_count = heap[s].ref_count + 1]
  /\ last' = Call("dup", s, s, "ok", "none")
  /\ UNCHANGED fault
dss_dup(s) ==
  /\ fault = "none"
  /\ Live(heap, s)
  /\ \E d \in MallocAnswers(heap) :
       /\ heap' = IF d = NULL THEN heap ELSE [heap EXCEPT ![d] = heap[s]]
       /\ last' = Call("dup", s, d, Ma(d), "none")
  /\ UNCHANGED fault

\* dss_free that tests the count before taking one from it
\* (hdr->ref_count-- == 0)
dss_free_postdec(s) ==
  /\ fault = "none"
  /\ Live(heap, s)
  /\ heap' = IF heap[s].ref_count = 0
             THEN [heap EXCEPT ![s] = NoBlock]
             ELSE [heap EXCEPT ![s].ref_count = heap[s].ref_count - 1]
  /\ last' = Call("free", s, NULL, "none", "none")
  /\ UNCHANGED fault

\* --hdr->ref_count on a uint32: a count of 0 would wrap to a nonzero value,
\* which like -1 here is not 0, so the block is kept
dss_free(s) ==
  /\ fault = "none"
  /\ Live(heap, s)
  /\ heap' = IF heap[s].ref_count - 1 = 0
             THEN [heap EXCEPT ![s] = NoBlock]
             ELSE [heap EXCEPT ![s].ref_count = heap[s].ref_count - 1]
  /\ last' = Call("free", s, NULL, "none", "none")
  /\ UNCHANGED fault

dss_refshare(s) ==
  /\ fault = "none"
  /\ Live(heap, s)
  /\ heap[s].ref_count < MaxRef
  /\ heap' = [heap EXCEPT ![s].ref_count = heap[s].ref_count + 1]
  /\ last' = Call("refshare", s, s, "none", "none")
  /\ UNCHANGED fault

\* dss_concatcowb that appends to the shared block itself
CowB_inplace(s, t, c) ==
  /\ heap' = [heap EXCEPT ![s] = dss_append_bytes(Resize(heap[s],
                                   HDR + NewCap(heap[s], Len(t))), t)]
  /\ last' = [c EXCEPT !.ma = "ok", !.ret = s]
  /\ UNCHANGED fault

\* the copy-on-write branch of dss_concatcowb
CowB(s, t, c) ==
  \E d \in MallocAnswers(heap) :
    LET c1 == [c EXCEPT !.ma = Ma(d)]
        h1 == IF d = NULL THEN heap ELSE [heap EXCEPT ![d] = heap[s]]
    IN IF Len(t) = 0
       THEN heap' = h1 /\ last' = [c1 EXCEPT !.ret = d] /\ UNCHANGED fault
       ELSE IF d = NULL
       THEN Undefined(heap, c1)
       ELSE \E q \in (IF MustRealloc(h1[d], Len(t))
                      THEN ReallocAnswers(h1, d) ELSE {d}) :
              LET e == dss_expand(h1, d, Len(t), q)
                  c2 == IF MustRealloc(h1[d], Len(t))
                        THEN [c1 EXCEPT !.ra = Ra(d, q)] ELSE c1
              IN IF e.hdr = NULL
                 THEN Undefined(h1, c2)
                 ELSE /\ heap' = [e.heap EXCEPT
                            ![e.hdr] = [dss_append_bytes(e.heap[e.hdr], t)
                                          EXCEPT !.ref_count = 1],
                            ![s].ref_count = heap[s].ref_count - 1]
                      /\ last' = [c2 EXCEPT !.ret = e.hdr]
                      /\ UNCHANGED fault

\* dss_concatcowb that copies whatever the count is
dss_concatcowb_always(s, t) ==
  /\ fault = "none"
  /\ Live(heap, s)
  /\ CowB(s, t, Call("concatcowb", s, NULL, "none", "none"))
dss_concatcowb(s, t) ==
  /\ fault = "none"
  /\ Live(heap, s)
  /\ LET c == Call("concatcowb", s, NULL, "none", "none")
     IN IF heap[s].ref_count > 1 THEN CowB(s, t, c) ELSE ConcatB(s, t, c)

dss_grow(s, len) ==
  /\ fault = "none"
  /\ Live(heap, s)
  /\ LET c == Call("grow", s, NULL, "none", "none")
     IN IF len > heap[s].len
        THEN \E q \in (IF MustRealloc(heap[s], len)
                       THEN ReallocAnswers(heap, s) ELSE {s}) :
               LET e == dss_expand(heap, s, len, q)
                   c1 == IF MustRealloc(heap[s], len)
                         THEN [c EXCEPT !.ra = Ra(s, q)] ELSE c
               IN IF e.hdr = NULL
                  THEN Undefined(heap, c1)
                  ELSE /\ heap' = [e.heap EXCEPT
                                     ![e.hdr] = GrowBlock(e.heap[e.hdr], len)]
                       /\ last' = [c1 EXCEPT !.ret = e.hdr]
                       /\ UNCHANGED fault
        ELSE heap' = heap /\ last' = [c EXCEPT !.ret = s] /\ UNCHANGED fault

\* dss_trim without its realloc
dss_trim_noshrink(s, start, end) ==
  /\ fault = "none"
  /\ Live(heap, s)
  /\ heap' = [heap EXCEPT ![s] = TrimBlock(heap[s], start, end)]
  /\ last' = Call("trim", s, s, "none", "none")
  /\ UNCHANGED fault
dss_trim(s, start, end) ==
  /\ fault = "none"
  /\ Live(heap, s)
  /\ LET c == Call("trim", s, NULL, "none", "none")
         n == HDR + TrimNewLen(heap[s], start, end) + DSS_NULLT
         h1 == [heap EXCEPT ![s] = TrimBlock(heap[s], start, end)]
     IN \E q \in ReallocAnswers(heap, s) :
          /\ heap' = IF q = NULL THEN h1
                     ELSE [Realloc(h1, s, n, q) EXCEPT ![q].size = n]
          /\ last' = [c EXCEPT !.ra = Ra(s, q), !.ret = q]
  /\ UNCHANGED fault

\* strlen(t): the bytes before the first zero
RECURSIVE strlen(_)
strlen(t) == IF t = <<>> \/ Head(t) = 0 THEN 0 ELSE 1 + strlen(Tail(t))

\* dss_catprintf for a format and arguments that render to r (no zero byte
\* in it).  tb is what the measuring vsnprintf returns, temp has the tb cells
\* of malloc(tb), and the rendering vsnprintf(temp, tb + DSS_NULLT, ..)
\* writes r and its terminator.
TempSize(r) == Len(r)
RenderBytes(r) == SubSeq(r, 1, (TempSize(r) + DSS_NULLT) - 1) \o <<0>>

\* The terminator is written past the cells of temp (through NULL when malloc
\* gave none), which is undefined: the process is killed, or the byte lands
\* in memory no block of the model has, the strlen of concat_func reads up
\* to it and the call goes on as if temp held it.  f is concat_func:
\* dss_concat or dss_concatcow.  free(temp) follows.
dss_catprintf(s, f, r) ==
  /\ fault = "none"
  /\ Live(heap, s)
  /\ LET c == Call("catprintf", s, NULL, "none", "none")
         temp == RenderBytes(r)
         t == SubSeq(temp, 1, strlen(temp))
     IN \/ Undefined(heap, c)
        \/ IF f = "dss_concatcow" /\ heap[s].ref_count > 1
           THEN CowB(s, t, c) ELSE ConcatB(s, t, c)

\* The library under every call a client can make on its live handles,
\* dss_catprintf apart
Idx == (0 - MaxIdx)..MaxIdx

Step ==
  \/ \E t \in Data : dss_newb(t)
  \/ dss_empty
  \/ \E s \in Addr, t \in Data : dss_concatb(s, t)
  \/ \E s \in Addr, t \in Data : dss_concatcowb(s, t)
  \/ \E s \in Addr : dss_dup(s)
  \/ \E s \in Addr : dss_free(s)
  \/ \E s \in Addr : dss_refshare(s)
  \/ \E s \in Addr, len \in 0..MaxGrow : dss_grow(s, len)
  \/ \E s \in Addr, start, end \in Idx : dss_trim(s, start, end)

\* one more call of a client that makes at most MaxCalls of them
Counted == ncalls < MaxCalls /\ ncalls' = ncalls + 1

Next == Step /\ Counted /\ UNCHANGED <<arg, pre, prev, nrealloc, refs>>

Spec == Init /\ [][Next]_vars

\* The record of the calls: the arguments of the last call and the block its
\* handle named before it, and the same of the call before
Note(s, t, n, m) ==
  /\ arg' = [t |-> t, n |-> n, m |-> m]
  /\ pre' = IF s \in Addr THEN heap[s] ELSE NoBlock
  /\ prev' = [call |-> last, arg |-> arg, pre |-> pre]

\* Creation and append alone, with longer data and the record kept
Chunks == SeqsUpTo(MaxChunk)

NextSeq ==
  /\ ncalls < MaxSeqCalls
  /\ ncalls' = ncalls + 1
  /\ \/ \E t \in Chunks : dss_newb(t) /\ Note(NULL, t, 0, 0)
     \/ dss_empty /\ Note(NULL, <<>>, 0, 0)
     \/ \E s \in Addr, t \in Chunks : dss_concatb(s, t) /\ Note(s, t, 0, 0)
  /\ UNCHANGED <<nrealloc, refs>>

SpecSeq == Init /\ [][NextSeq]_vars

\* dss_trim on a string dss_newb made of up to MaxStr bytes, with every pair
\* of indices around it and the two far ones
Strs == SeqsUpTo(MaxStr)
TrimIdx == (0 - MaxStr - 1)..(MaxStr + 1) \cup {2 * MaxStr, 4 * MaxStr}

InitTrim ==
  /\ \E t \in Strs : heap = [p \in Addr |-> IF p = 1 THEN NewBlock(t) ELSE NoBlock]
  /\ last = Call("newb", NULL, 1, "ok", "none")
  /\ fault = "none"
  /\ ncalls = 0
  /\ arg = NoArg
  /\ pre = NoBlock
  /\ prev = [call |-> NoCall, arg |-> NoArg, pre |-> NoBlock]
  /\ nrealloc = 0
  /\ refs = [p \in Addr |-> 0]

NextTrim ==
  /\ ncalls < MaxTrims
  /\ ncalls' = ncalls + 1
  /\ \E s \in Addr, start, end \in TrimIdx :
       dss_trim(s, start, end) /\ Note(s, <<>>, start, end)
  /\ UNCHANGED <<nrealloc, refs>>

SpecTrim == InitTrim /\ [][NextTrim]_vars

\* A string dss_newb made, appended to one byte at a time: each call is on
\* the handle the call before returned, and every call of realloc is counted
InitAppend ==
  /\ \E t \in Chunks :
       heap = [p \in Addr |-> IF p = 1 THEN NewBlock(t) ELSE NoBlock]
  /\ last = Call("newb", NULL, 1, "ok", "none")
  /\ fault = "none"
  /\ ncalls = 0
  /\ arg = NoArg
  /\ pre = NoBlock
  /\ prev = [call |-> NoCall, arg |-> NoArg, pre |-> NoBlock]
  /\ nrealloc = 0
  /\ refs = [p \in Addr |-> 0]

NextAppend ==
  /\ ncalls < MaxAppends
  /\ ncalls' = ncalls + 1
  /\ last.ret \in Addr
  /\ \E c \in Byte :
       dss_concatb(last.ret, <<c>>) /\ Note(last.ret, <<c>>, 0, 0)
  /\ nrealloc' = IF last'.ra = "none" THEN nrealloc ELSE nrealloc + 1
  /\ UNCHANGED refs

SpecAppend == InitAppend /\ [][NextAppend]_vars

\* The ownership protocol of the comment above dss_refshare, followed by
\* clients while the allocator has memory: dss_newb makes one owner,
\* dss_refshare one more, dss_free is an owner giving its reference up, and
\* an owner that calls dss_concatcowb holds the handle returned in place of
\* the one it passed.  refs counts the references the owners hold.
OwnNew(t) ==
  /\ dss_newb(t)
  /\ refs' = [refs EXCEPT ![last'.ret] = 1]

OwnShare(s) ==
  /\ refs[s] >= 1
  /\ dss_refshare(s)
  /\ refs' = [refs EXCEPT ![s] = refs[s] + 1]

OwnFree(s) ==
  /\ refs[s] >= 1
  /\ dss_free(s)
  /\ refs' = [refs EXCEPT ![s] = refs[s] - 1]

OwnCow(s, t) ==
  /\ refs[s] >= 1
  /\ dss_concatcowb(s, t)
  /\ refs' = IF last'.ret = s THEN refs
             ELSE [refs EXCEPT ![s] = refs[s] - 1,
                               ![last'.ret] = refs[last'.ret] + 1]

NextOwn ==
  /\ ncalls < MaxOwnCalls
  /\ ncalls' = ncalls + 1
  /\ \/ \E t \in Data : OwnNew(t)
     \/ \E s \in Addr : OwnShare(s)
     \/ \E s \in Addr : OwnFree(s)
     \/ \E s \in Addr, t \in Data : OwnCow(s, t)
  /\ last'.ma # "fail"
  /\ last'.ra # "fail"
  /\ UNCHANGED <<arg, pre, prev, nrealloc>>

SpecOwn == Init /\ [][NextOwn]_vars

\* Formatted appends to strings dss_newb made, shared or not; the record
\* keeps the rendered string, the size of temp and the bytes written to it
Rendered == {r \in Chunks : strlen(r) = Len(r)}

NextFmt ==
  /\ ncalls < MaxFmtCalls
  /\ ncalls' = ncalls + 1
  /\ \/ \E t \in Data : dss_newb(t) /\ Note(NULL, t, 0, 0)
     \/ \E s \in Addr : dss_refshare(s) /\ Note(s, <<>>, 0, 0)
     \/ \E s \in Addr, f \in {"dss_concat", "dss_concatcow"}, r \in Rendered :
          /\ dss_catprintf(s, f, r)
          /\ Note(s, r, TempSize(r), Len(RenderBytes(r)))
  /\ UNCHANGED <<nrealloc, refs>>

SpecFmt == Init /\ [][NextFmt]_vars

\* the model's own well-formedness
TypeOK ==
  /\ fault \in {"none", "segv"}
  /\ \A p \in Addr : Live(heap, p) =>
       /\ Len(heap[p].buf) = heap[p].size - HDR
       /\ heap[p].len \in 1..Len(heap[p].buf)

(***************************************************************************)
(* The claims                                                              *)
(***************************************************************************)

\* C1: copy-on-write isolation. dss_concatcowb(s, t) on a shared handle
\* (ref_count > 1) leaves the block behind s byte for byte as it was, length
\* included, whatever the allocator answers; and the handle it returns has
\* the payload of s followed by t.
CowIsolation ==
  [][\A t \in Data :
       LET s == last'.s
           ret == last'.ret
       IN (/\ last'.op = "concatcowb"
           /\ Live(heap, s)
           /\ heap[s].ref_count > 1
           /\ dss_concatcowb(s, t))
          => /\ Live(heap', s)
             /\ heap'[s].buf = heap[s].buf
             /\ heap'[s].len = heap[s].len
             /\ ret \in Addr =>
                  /\ Live(heap', ret)
                  /\ Payload(heap'[ret]) = Payload(heap[s]) \o t]_vars

\* a shared handle was appended to by copy-on-write, and now a copy that is
\* longer than the original stands beside it
CowIsolationWitness ==
  /\ last.op = "concatcowb"
  /\ last.ma = "ok"
  /\ last.ret \in Addr
  /\ last.ret # last.s
  /\ Live(heap, last.s)
  /\ Live(heap, last.ret)
  /\ heap[last.ret].len > heap[last.s].len
  /\ heap[last.s].len > 1

\* C2: dss_concatcowb on a shared handle, whatever the data, takes one from
\* the original's ref_count and returns another allocation whose ref_count
\* is 1 (stated for the calls in which every allocation succeeded).
CowConsumesShare ==
  [][LET s == last'.s
         ret == last'.ret
     IN (/\ last'.op = "concatcowb"
         /\ Live(heap, s)
         /\ heap[s].ref_count > 1
         /\ last'.ma = "ok"
         /\ last'.ra # "fail")
        => /\ ret \in Addr
           /\ ret # s
           /\ Live(heap', ret)
           /\ heap'[ret].ref_count = 1
           /\ heap'[s].ref_count = heap[s].ref_count - 1]_vars

\* C3: the reference lifecycle. A new string has ref_count 1; dss_refshare
\* returns its argument and adds exactly one; dss_free takes exactly one and
\* releases the allocation exactly when the count reaches 0; nothing else
\* releases an allocation (a realloc that moves it apart); and so every live
\* allocation has ref_count >= 1.
RefLifecycle ==
  /\ [](\A p \in Addr : Live(heap, p) => heap[p].ref_count >= 1)
  /\ [][LET s == last'.s
            ret == last'.ret
        IN /\ (last'.op \in {"newb", "empty"} /\ ret # NULL)
                => ~Live(heap, ret) /\ Live(heap', ret)
                   /\ heap'[ret].ref_count = 1
           /\ last'.op = "refshare"
                => /\ ret = s
                   /\ heap' = [heap EXCEPT ![s].ref_count = heap[s].ref_count + 1]
           /\ last'.op = "free"
                => IF heap[s].ref_count = 1
                   THEN heap' = [heap EXCEPT ![s] = NoBlock]
                   ELSE heap' = [heap EXCEPT
                                   ![s].ref_count = heap[s].ref_count - 1]
           /\ \A p \in Addr :
                (Live(heap, p) /\ ~Live(heap', p))
                  => \/ last'.op = "free" /\ p = s /\ heap[p].ref_count = 1
                     \/ last'.ra = "moved" /\ Live(heap', ret)
                        /\ heap'[ret].ref_count >= 1]_vars

\* a handle was shared and one of its two owners has released it: the
\* allocation is still there with one owner
RefLifecycleWitness ==
  /\ last.op = "free"
  /\ Live(heap, last.s)
  /\ heap[last.s].ref_count = 1

\* C4: dss_newb(t) returns a handle whose length is Len(t) + 1 and whose
\* stored bytes are t followed by one terminator; dss_empty has length 1.
NewLength ==
  /\ (last.op = "newb" /\ last.ret # NULL) =>
       /\ Live(heap, last.ret)
       /\ dss_len(heap, last.ret) = Len(arg.t) + 1
       /\ SubSeq(heap[last.ret].buf, 1, dss_len(heap, last.ret)) = arg.t \o <<0>>
  /\ (last.op = "empty" /\ last.ret # NULL) =>
       /\ Live(heap, last.ret)
       /\ dss_len(heap, last.ret) = 1
       /\ heap[last.ret].buf = <<0>>

\* dss_newb was given MaxChunk bytes, a zero byte among them
NewLengthWitness ==
  /\ last.op = "newb"
  /\ last.ret \in Addr
  /\ Len(arg.t) = MaxChunk
  /\ \E i \in 1..Len(arg.t) : arg.t[i] = 0
  /\ Payload(heap[last.ret]) = arg.t

\* C5: two appends in a row. After h1 = dss_concatb(h, t1) and
\* dss_concatb(h1, t2) the payload is that of h, then t1, then t2, and the
\* length is that of h plus the two sizes, whether realloc was called or not.
ConcatTwice ==
  (/\ last.op = "concatb"
   /\ prev.call.op = "concatb"
   /\ last.s = prev.call.ret
   /\ last.ret \in Addr)
  => /\ Live(heap, last.ret)
     /\ Payload(heap[last.ret]) = Payload(prev.pre) \o prev.arg.t \o arg.t
     /\ heap[last.ret].len = prev.pre.len + Len(prev.arg.t) + Len(arg.t)

\* the first append moved the block, the second found room in place, and
\* both appended something
ConcatTwiceWitness ==
  /\ last.op = "concatb"
  /\ prev.call.op = "concatb"
  /\ last.s = prev.call.ret
  /\ last.ret \in Addr
  /\ prev.call.ra = "moved"
  /\ last.ra = "none"
  /\ Len(prev.arg.t) > 0
  /\ Len(arg.t) > 0
  /\ Len(Payload(prev.pre)) > 0

\* C6: when the realloc inside dss_expand fails during dss_concatb,
\* dss_concatcowb or dss_grow, the call reports the failure (returns NULL)
\* without an access through an invalid header, and the handle it was given
\* is still there with its length, bytes and ref_count as they were.
CleanFailure ==
  [][LET s == last'.s
     IN (last'.op \in {"concatb", "concatcowb", "grow"} /\ last'.ra = "fail")
        => /\ last'.ret = NULL
           /\ fault' = "none"
           /\ Live(heap', s)
           /\ heap'[s] = heap[s]]_vars

\* C7: dss_trim(s, start, end) returns the bytes start..end of the payload,
\* both ends included, a negative index counted from the end, start clamped
\* into [0, n] and end to at most n - 1, the empty string when end < start;
\* the length is the size of the result plus one.
ClaimStart(n, a) ==
  LET r == IF a < 0 THEN a + n ELSE a
  IN IF r < 0 THEN 0 ELSE IF r > n THEN n ELSE r

ClaimEnd(n, b) ==
  LET r == IF b < 0 THEN b + n ELSE b
  IN IF r > n - 1 THEN n - 1 ELSE r

ClaimSlice(p, a, b) ==
  LET cs == ClaimStart(Len(p), a)
      ce == ClaimEnd(Len(p), b)
  IN IF ce < cs THEN <<>> ELSE SubSeq(p, cs + 1, ce + 1)

TrimSlice ==
  (last.op = "trim" /\ last.ret \in Addr)
  => /\ Live(heap, last.ret)
     /\ Payload(heap[last.ret]) = ClaimSlice(Payload(pre), arg.n, arg.m)
     /\ heap[last.ret].len = Len(ClaimSlice(Payload(pre), arg.n, arg.m)) + 1

\* dss_trim(s, -3, -1) on five bytes has returned the last three of them
TrimSliceWitness ==
  /\ last.op = "trim"
  /\ last.ret \in Addr
  /\ arg.n = -3
  /\ arg.m = -1
  /\ Len(Payload(pre)) = 5
  /\ Payload(heap[last.ret]) = SubSeq(Payload(pre), 3, 5)
  /\ Payload(pre)[2] # Payload(pre)[3]
  /\ Payload(pre)[4] # Payload(pre)[5]

\* C8: dss_grow(s, n) on an empty string (length 1) gives a payload of n zero
\* bytes and length n + 1 (stated for n beyond the current length).
GrowEmpty ==
  [][\A n \in 2..MaxGrow :
       LET s == last'.s
           ret == last'.ret
       IN (/\ last'.op = "grow"
           /\ Live(heap, s)
           /\ heap[s].len = 1
           /\ dss_grow(s, n)
           /\ ret \in Addr)
          => /\ heap'[ret].len = n + 1
             /\ Payload(heap'[ret]) = Zeros(n)]_vars

\* C9: dss_grow(s, n) with n beyond the current length keeps the bytes that
\* were in the buffer, zero-fills every byte it newly exposes, sets the length
\* to exactly n and leaves a terminator at offset length - 1.
GrowZeroFills ==
  [][\A n \in 0..MaxGrow :
       LET s == last'.s
           ret == last'.ret
       IN (/\ last'.op = "grow"
           /\ Live(heap, s)
           /\ n > heap[s].len
           /\ dss_grow(s, n)
           /\ ret \in Addr)
          => /\ Live(heap', ret)
             /\ heap'[ret].len = n
             /\ n <= Len(heap'[ret].buf)
             /\ \A i \in 1..heap[s].len : heap'[ret].buf[i] = heap[s].buf[i]
             /\ \A i \in (heap[s].len + 1)..n : heap'[ret].buf[i] = 0
             /\ heap'[ret].buf[heap'[ret].len] = 0]_vars

\* a string of one nonzero byte was grown by more than one byte, and realloc
\* moved it
GrowZeroFillsWitness ==
  /\ last.op = "grow"
  /\ last.ra = "moved"
  /\ last.ret \in Addr
  /\ heap[last.ret].len > 2
  /\ heap[last.ret].buf[1] # 0
  /\ heap[last.ret].buf[2] = 0

\* C10: every live handle has a zero byte at offset length - 1
TerminatorInv ==
  \A p \in Addr : Live(heap, p) =>
    /\ heap[p].len \in 1..Len(heap[p].buf)
    /\ heap[p].buf[heap[p].len] = 0

\* two handles are live, one of them just trimmed to a shorter string that
\* is not empty
TerminatorInvWitness ==
  /\ last.op = "trim"
  /\ last.ret \in Addr
  /\ \A p \in Addr : Live(heap, p)
  /\ heap[last.ret].len = 2
  /\ heap[last.ret].buf[1] # 0
  /\ \E p \in Addr : heap[p].len > 2

\* C11: dss_dup(s) returns a handle to an allocation of its own, one that was
\* not live before, holding the same capacity, length, buffer and (copied
\* verbatim) reference count as s, and leaves the block of s as it was; a
\* failed dss_dup changes nothing.  The two are independent afterwards: every
\* call of the library changes no live block other than the one its handle
\* argument names.
DupIndependent ==
  [][LET s == last'.s
         ret == last'.ret
     IN /\ (last'.op = "dup" /\ ret \in Addr) =>
             /\ ret # s
             /\ ~Live(heap, ret)
             /\ heap'[ret] = heap[s]
             /\ heap'[s] = heap[s]
        /\ (last'.op = "dup" /\ ret = NULL) => heap' = heap
        /\ \A q \in Addr \ {s} : Live(heap, q) => heap'[q] = heap[q]]_vars

\* a shared string with bytes has been duplicated, count and all
DupIndependentWitness ==
  /\ last.op = "dup"
  /\ last.ret \in Addr
  /\ last.ret # last.s
  /\ heap[last.ret] = heap[last.s]
  /\ heap[last.ret].ref_count = 2
  /\ heap[last.ret].len > 1

\* What dss_concatb(s, t) leaves behind when realloc answers q: the heap and
\* the handle returned (BAD after the access through the NULL header)
ConcatOutcome(hp, s, t, q) ==
  IF Len(t) = 0 THEN [heap |-> hp, ret |-> s]
  ELSE LET e == dss_expand(hp, s, Len(t), q)
       IN IF e.hdr = NULL THEN [heap |-> hp, ret |-> BAD]
          ELSE [heap |-> [e.heap EXCEPT
                            ![e.hdr] = dss_append_bytes(e.heap[e.hdr], t)],
                ret |-> e.hdr]

\* C12: dss_concatcowb(s, t) on a handle whose ref_count is 1 allocates no
\* duplicate and does exactly what dss_concatb(s, t) does: every outcome of
\* either call is an outcome of an in-place append under some answer of
\* realloc.  When it returns a handle, that handle names the one allocation
\* there is (s itself, or s moved), with the payload of s followed by t and a
\* ref_count of 1.
CowUnsharedIsConcat ==
  [][\A t \in Data :
       LET s == last'.s
           ret == last'.ret
           inplace == \E q \in ReallocAnswers(heap, s) :
                        /\ heap' = ConcatOutcome(heap, s, t, q).heap
                        /\ ret = ConcatOutcome(heap, s, t, q).ret
       IN /\ (last'.op = "concatb" /\ Live(heap, s) /\ dss_concatb(s, t))
               => inplace
          /\ (/\ last'.op = "concatcowb" /\ Live(heap, s)
              /\ heap[s].ref_count = 1
              /\ dss_concatcowb(s, t))
               => /\ inplace
                  /\ last'.ma = "none"
                  /\ {p \in Addr : Live(heap', p)}
                       = ({p \in Addr : Live(heap, p)} \ {s})
                           \cup {IF ret \in Addr THEN ret ELSE s}
                  /\ ret \in Addr =>
                       /\ Payload(heap'[ret]) = Payload(heap[s]) \o t
                       /\ heap'[ret].ref_count = 1]_vars

\* an unshared string has been appended to by dss_concatcowb, and moved
CowUnsharedIsConcatWitness ==
  /\ last.op = "concatcowb"
  /\ last.ma = "none"
  /\ last.ra = "moved"
  /\ last.ret \in Addr
  /\ heap[last.ret].ref_count = 1
  /\ heap[last.ret].len > 1
  /\ ~Live(heap, last.s)

\* floor(log2(n)) for n >= 1
RECURSIVE Log2(_)
Log2(n) == IF n < 2 THEN 0 ELSE 1 + Log2(n \div 2)

\* C13: amortized growth. After N single-byte appends to a string dss_newb
\* made, realloc has been called at most floor(log2(N)) + 1 times, and each
\* realloc that succeeded left a usable capacity (size - HDR) of at least
\* twice the one before.
AmortizedGrowth ==
  /\ ncalls >= 1 => nrealloc <= Log2(ncalls) + 1
  /\ (last.op = "concatb" /\ last.ra \in {"same", "moved"}) =>
       Total(heap[last.ret]) >= 2 * Total(pre)

\* MaxAppends appends to the empty string: the bound is met, the last append
\* having reallocated
AmortizedGrowthWitness ==
  /\ ncalls = MaxAppends
  /\ last.ret \in Addr
  /\ last.ra \in {"same", "moved"}
  /\ nrealloc = Log2(MaxAppends) + 1
  /\ heap[last.ret].len = MaxAppends + DSS_NULLT

\* The calls that go through dss_expand, when its realloc succeeded, and what
\* dss_expand computed as needed in them: the new length after an append,
\* the old length plus the target after dss_grow
Expanded == last'.op \in {"concatb", "concatcowb", "grow"}
            /\ last'.ra \in {"same", "moved"}
            /\ last'.ret \in Addr
ExpandNeeded ==
  IF last'.op = "grow" THEN heap[last'.s].len + heap'[last'.ret].len
  ELSE heap'[last'.ret].len
Max(a, b) == IF a >= b THEN a ELSE b

\* C14 as stated: whenever dss_expand reallocates, the new usable capacity is
\* max(available * 2, needed * 2).
ExpandMaxOfDoubles ==
  [][Expanded =>
       Total(heap'[last'.ret])
         = Max(Total(heap[last'.s]) * 2, ExpandNeeded * 2)]_vars

\* C14, amended: whenever dss_expand reallocates, the new usable capacity is
\* available * 2 when that is at least needed, and needed * 2 otherwise; it
\* is at least double the current usable capacity and at least needed, and
\* the allocation has that many cells.
ExpandDoubles ==
  [][Expanded =>
       LET total == Total(heap[last'.s])
           new_cap == Total(heap'[last'.ret])
       IN /\ new_cap = IF total * 2 >= ExpandNeeded
                       THEN total * 2 ELSE ExpandNeeded * 2
          /\ new_cap >= total * 2
          /\ new_cap >= ExpandNeeded
          /\ Len(heap'[last'.ret].buf) = new_cap]_vars

\* dss_grow(s, 3) of an empty string has reallocated: twice the capacity was
\* not enough and twice the needed 4 bytes were taken
ExpandDoublesWitness ==
  /\ last.op = "grow"
  /\ last.ra \in {"same", "moved"}
  /\ last.ret \in Addr
  /\ heap[last.ret].len = 3
  /\ Total(heap[last.ret]) = 8

\* C15: capacity invariant. After every call, each live block has as many
\* cells as its size field says past the header, and a length of at least 1
\* and at most that many: the bytes of an append and every terminator, which
\* end at offset len - 1, are inside the allocation.  dss_grow writes further
\* than its final length, len zeros from the old length on, and these too end
\* inside the allocation it has expanded to.  (The writes of a call whose
\* realloc failed go through no live handle; they are the subject of C6.)
CapacityInv ==
  [][/\ \A p \in Addr : Live(heap', p) =>
          /\ Len(heap'[p].buf) = heap'[p].size - HDR
          /\ heap'[p].len >= DSS_NULLT
          /\ heap'[p].len <= heap'[p].size - HDR
     /\ (/\ last'.op = "grow"
         /\ last'.ret \in Addr
         /\ Live(heap, last'.s)
         /\ heap'[last'.ret].len > heap[last'.s].len)
          => heap[last'.s].len + heap'[last'.ret].len
               <= Total(heap'[last'.ret])]_vars

\* an append without realloc has filled the allocation to its last cell
CapacityInvWitness ==
  /\ last.op = "concatb"
  /\ last.ra = "none"
  /\ last.ret \in Addr
  /\ heap[last.ret].len > 2
  /\ heap[last.ret].len = Total(heap[last.ret])
  /\ heap[last.ret].buf[heap[last.ret].len - 1] # 0

\* C16: dss_concatb(s, t) on a block with len + Len(t) <= size - HDR calls no
\* realloc: it returns s itself, and the size field and the number of cells
\* of the allocation are what they were.
NoReallocWhenFits ==
  (/\ last.op = "concatb"
   /\ pre.len + Len(arg.t) <= pre.size - HDR)
    => /\ last.ra = "none"
       /\ last.ret = last.s
       /\ heap[last.ret].size = pre.size
       /\ Len(heap[last.ret].buf) = Len(pre.buf)

\* bytes have been appended that fill the allocation exactly
NoReallocWhenFitsWitness ==
  /\ last.op = "concatb"
  /\ Len(arg.t) > 0
  /\ pre.len + Len(arg.t) = pre.size - HDR
  /\ last.ret = last.s
  /\ Payload(heap[last.ret]) = Payload(pre) \o arg.t

\* C17: every dss_trim(s, start, end) that returns a handle leaves an
\* allocation that fits exactly: size == HDR + len and as many cells as len,
\* where len is the number of bytes extracted plus one for the terminator
\* (1 when nothing is extracted), and the ref_count s had.
TrimShrinks ==
  [][\A start, end \in Idx :
       LET s == last'.s
           ret == last'.ret
       IN (/\ last'.op = "trim"
           /\ Live(heap, s)
           /\ dss_trim(s, start, end)
           /\ ret \in Addr)
          => /\ Live(heap', ret)
             /\ heap'[ret].size = HDR + heap'[ret].len
             /\ Len(heap'[ret].buf) = heap'[ret].len
             /\ heap'[ret].len
                  = Len(ClaimSlice(Payload(heap[s]), start, end)) + DSS_NULLT
             /\ heap'[ret].ref_count = heap[s].ref_count
             /\ ret # s => ~Live(heap', s)]_vars

\* a shared string has been trimmed to nothing, beside a copy of what it was
TrimShrinksWitness ==
  /\ last.op = "trim"
  /\ last.ra = "same"
  /\ last.ret \in Addr
  /\ heap[last.ret].len = 1
  /\ heap[last.ret].size = HDR + 1
  /\ heap[last.ret].ref_count = 2
  /\ \E p \in Addr \ {last.ret} :
       Live(heap, p) /\ heap[p].size > HDR + 1 /\ heap[p].ref_count = 2

RECURSIVE SumOver(_, _)
SumOver(f, S) ==
  IF S = {} THEN 0
  ELSE LET p == CHOOSE x \in S : TRUE IN f[p] + SumOver(f, S \ {p})

\* C18: ownership conservation. While clients follow the protocol, the
\* ref_counts of the live allocations add up to the number of references the
\* owners hold; no owner holds a reference to a freed allocation (its one
\* dss_free is no double free), and once the owners hold none, no allocation
\* is live (no leak).
OwnershipConserved ==
  /\ SumOver([p \in Addr |-> heap[p].ref_count], {p \in Addr : Live(heap, p)})
       = SumOver(refs, Addr)
  /\ \A p \in Addr : refs[p] > 0 => Live(heap, p)
  /\ SumOver(refs, Addr) = 0 => \A p \in Addr : ~Live(heap, p)

\* C19: in dss_catprintf the temporary buffer has at least as many bytes as
\* the rendering pass writes into it (the rendered bytes and the
\* terminator), and when the call returns a handle the string appended is
\* exactly the rendered one.
TempHoldsRender ==
  last.op = "catprintf" =>
    /\ arg.n >= arg.m
    /\ last.ret \in Addr => Payload(heap[last.ret]) = Payload(pre) \o arg.t

====
